---- MODULE Spec2Model ----
(***************************************************************************)
(* A model of zmq::mechanism_t (src/src/mechanism.cpp): the ZMTP handshake *)
(* metadata codec (add_property / parse_metadata), the socket type         *)
(* compatibility check, the peer identity store and the basic property     *)
(* builder.                                                                *)
(*                                                                         *)
(* Bytes are naturals 0..255; a C string, a std::string, a blob_t and a    *)
(* memory buffer are sequences of bytes.  A memory cell that was allocated *)
(* but never written holds Uninit.                                         *)
(***************************************************************************)
EXTENDS Integers, Sequences, FiniteSets, TLC

\* ------------------------------------------------------------------ bounds

\* Properties per generated metadata buffer (parser specification).
MaxProps == 2
\* Value bytes kept after the value-length field when a buffer is cut inside
\* a long value (cuts in the header and at the last byte are always present).
MaxCutTail == 2
\* Operations issued on one mechanism instance (lifecycle specification).
MaxCalls == 2
\* Properties per encoded list in the codec specification.
MaxEncoded == 2

\* ------------------------------------------------------- program constants

\* Socket type codes: the index of each name in socket_type_string's table.
ZMQ_PAIR == 0
ZMQ_PUB == 1
ZMQ_SUB == 2
ZMQ_REQ == 3
ZMQ_REP == 4
ZMQ_DEALER == 5
ZMQ_ROUTER == 6
ZMQ_PULL == 7
ZMQ_PUSH == 8
ZMQ_XPUB == 9
ZMQ_XSUB == 10
ZMQ_STREAM == 11
ZMQ_SERVER == 12
ZMQ_CLIENT == 13
ZMQ_RADIO == 14
ZMQ_DISH == 15
ZMQ_GATHER == 16
ZMQ_SCATTER == 17
ZMQ_DGRAM == 18

\* The string literals of the source, byte by byte (ASCII).
STR_PAIR == <<80, 65, 73, 82>>
STR_PUB == <<80, 85, 66>>
STR_SUB == <<83, 85, 66>>
STR_REQ == <<82, 69, 81>>
STR_REP == <<82, 69, 80>>
STR_DEALER == <<68, 69, 65, 76, 69, 82>>
STR_ROUTER == <<82, 79, 85, 84, 69, 82>>
STR_PULL == <<80, 85, 76, 76>>
STR_PUSH == <<80, 85, 83, 72>>
STR_XPUB == <<88, 80, 85, 66>>
STR_XSUB == <<88, 83, 85, 66>>
STR_STREAM == <<83, 84, 82, 69, 65, 77>>
STR_SERVER == <<83, 69, 82, 86, 69, 82>>
STR_CLIENT == <<67, 76, 73, 69, 78, 84>>
STR_RADIO == <<82, 65, 68, 73, 79>>
STR_DISH == <<68, 73, 83, 72>>
STR_GATHER == <<71, 65, 84, 72, 69, 82>>
STR_SCATTER == <<83, 67, 65, 84, 84, 69, 82>>
STR_DGRAM == <<68, 71, 82, 65, 77>>

\* "Socket-Type"
ZMTP_PROPERTY_SOCKET_TYPE == <<83, 111, 99, 107, 101, 116, 45, 84, 121, 112, 101>>
\* "Identity"
ZMTP_PROPERTY_IDENTITY == <<73, 100, 101, 110, 116, 105, 116, 121>>
\* "User-Id"
ZMQ_MSG_PROPERTY_USER_ID == <<85, 115, 101, 114, 45, 73, 100>>

EINVAL == "EINVAL"
EPROTO == "EPROTO"

\* A cell of a freshly allocated message that nothing wrote yet.
Uninit == -1

\* ----------------------------------------------------------------- helpers

\* s repeated: n copies of byte b.
Fill(b, n) == [i \in 1..n |-> b]

\* memcpy (dst + pos - 1, src, Len (src)) on a buffer that is large enough.
memcpy(buf, pos, src) ==
    SubSeq(buf, 1, pos - 1) \o src \o SubSeq(buf, pos + Len(src), Len(buf))

\* wire.hpp put_uint32: network byte order.
put_uint32(v) ==
    << (v \div 16777216) % 256, (v \div 65536) % 256, (v \div 256) % 256, v % 256 >>

\* wire.hpp get_uint32 at buf[p .. p+3]: network byte order.
get_uint32(buf, p) ==
    buf[p] * 16777216 + buf[p + 1] * 65536 + buf[p + 2] * 256 + buf[p + 3]

\* metadata_t::dict_t is a std::map <std::string, std::string>; a dictionary is
\* a function from the names it holds to their values.
EmptyDict == [k \in {} |-> <<>>]

\* dict.insert (dict_t::value_type (k, v)): std::map::insert adds the pair only
\* when no element with key k exists, and leaves the map alone otherwise.
dict_insert(d, k, v) ==
    IF k \in DOMAIN d THEN d ELSE [x \in DOMAIN d \cup {k} |-> IF x = k THEN v ELSE d[x]]

\* --------------------------------------------------------- socket types

socket_type_string(socket_type) ==
    CASE socket_type = 0 -> STR_PAIR
      [] socket_type = 1 -> STR_PUB
      [] socket_type = 2 -> STR_SUB
      [] socket_type = 3 -> STR_REQ
      [] socket_type = 4 -> STR_REP
      [] socket_type = 5 -> STR_DEALER
      [] socket_type = 6 -> STR_ROUTER
      [] socket_type = 7 -> STR_PULL
      [] socket_type = 8 -> STR_PUSH
      [] socket_type = 9 -> STR_XPUB
      [] socket_type = 10 -> STR_XSUB
      [] socket_type = 11 -> STR_STREAM
      [] socket_type = 12 -> STR_SERVER
      [] socket_type = 13 -> STR_CLIENT
      [] socket_type = 14 -> STR_RADIO
      [] socket_type = 15 -> STR_DISH
      [] socket_type = 16 -> STR_GATHER
      [] socket_type = 17 -> STR_SCATTER
      [] socket_type = 18 -> STR_DGRAM

\* check_socket_type with the PUSH and PULL rows exchanged.
check_socket_type_swapped(opts, type_) ==
    CASE opts.type = ZMQ_REQ -> type_ = STR_REP \/ type_ = STR_ROUTER
      [] opts.type = ZMQ_REP -> type_ = STR_REQ \/ type_ = STR_DEALER
      [] opts.type = ZMQ_DEALER -> type_ = STR_REP \/ type_ = STR_DEALER \/ type_ = STR_ROUTER
      [] opts.type = ZMQ_ROUTER -> type_ = STR_REQ \/ type_ = STR_DEALER \/ type_ = STR_ROUTER
      [] opts.type = ZMQ_PUSH -> type_ = STR_PUSH
      [] opts.type = ZMQ_PULL -> type_ = STR_PULL
      [] opts.type = ZMQ_PUB -> type_ = STR_SUB \/ type_ = STR_XSUB
      [] opts.type = ZMQ_SUB -> type_ = STR_PUB \/ type_ = STR_XPUB
      [] opts.type = ZMQ_XPUB -> type_ = STR_SUB \/ type_ = STR_XSUB
      [] opts.type = ZMQ_XSUB -> type_ = STR_PUB \/ type_ = STR_XPUB
      [] opts.type = ZMQ_PAIR -> type_ = STR_PAIR
      [] opts.type = ZMQ_SERVER -> type_ = STR_CLIENT
      [] opts.type = ZMQ_CLIENT -> type_ = STR_SERVER
      [] opts.type = ZMQ_RADIO -> type_ = STR_DISH
      [] opts.type = ZMQ_DISH -> type_ = STR_RADIO
      [] opts.type = ZMQ_GATHER -> type_ = STR_SCATTER
      [] opts.type = ZMQ_SCATTER -> type_ = STR_GATHER
      [] opts.type = ZMQ_DGRAM -> type_ = STR_DGRAM
      [] OTHER -> FALSE

\* check_socket_type: the switch on options.type; the default case breaks and
\* the function returns false.
check_socket_type(opts, type_) ==
    CASE opts.type = ZMQ_REQ -> type_ = STR_REP \/ type_ = STR_ROUTER
      [] opts.type = ZMQ_REP -> type_ = STR_REQ \/ type_ = STR_DEALER
      [] opts.type = ZMQ_DEALER -> type_ = STR_REP \/ type_ = STR_DEALER \/ type_ = STR_ROUTER
      [] opts.type = ZMQ_ROUTER -> type_ = STR_REQ \/ type_ = STR_DEALER \/ type_ = STR_ROUTER
      [] opts.type = ZMQ_PUSH -> type_ = STR_PULL
      [] opts.type = ZMQ_PULL -> type_ = STR_PUSH
      [] opts.type = ZMQ_PUB -> type_ = STR_SUB \/ type_ = STR_XSUB
      [] opts.type = ZMQ_SUB -> type_ = STR_PUB \/ type_ = STR_XPUB
      [] opts.type = ZMQ_XPUB -> type_ = STR_SUB \/ type_ = STR_XSUB
      [] opts.type = ZMQ_XSUB -> type_ = STR_PUB \/ type_ = STR_XPUB
      [] opts.type = ZMQ_PAIR -> type_ = STR_PAIR
      [] opts.type = ZMQ_SERVER -> type_ = STR_CLIENT
      [] opts.type = ZMQ_CLIENT -> type_ = STR_SERVER
      [] opts.type = ZMQ_RADIO -> type_ = STR_DISH
      [] opts.type = ZMQ_DISH -> type_ = STR_RADIO
      [] opts.type = ZMQ_GATHER -> type_ = STR_SCATTER
      [] opts.type = ZMQ_SCATTER -> type_ = STR_GATHER
      [] opts.type = ZMQ_DGRAM -> type_ = STR_DGRAM
      [] OTHER -> FALSE

\* ----------------------------------------------------------------- encoder

\* static property_len (name_len, value_len)
property_len(name_length, value_len) == 1 + name_length + 4 + value_len

\* static name_len (name): strlen, asserted to be at most 255.
name_len_ok(name) == Len(name) <= 255
name_len(name) == Len(name)

\* mechanism_t::property_len (name, value_len)
mechanism_property_len(name, value_len) == property_len(name_len(name), value_len)

\* add_property writing the value length before the name length and name.
add_property_length_first(buf, ptr, ptr_capacity, name, value) ==
    LET nl == name_len(name)
        total_len == property_len(nl, Len(value))
    IN  IF ~name_len_ok(name) \/ total_len > ptr_capacity \/ Len(value) > 2147483647
        THEN [aborted |-> TRUE, buf |-> buf, ret |-> 0]
        ELSE LET b1 == memcpy(buf, ptr, put_uint32(Len(value)))
                 b2 == memcpy(b1, ptr + 4, <<nl>>)
                 b3 == memcpy(b2, ptr + 5, name)
                 b4 == memcpy(b3, ptr + 5 + nl, value)
             IN  [aborted |-> FALSE, buf |-> b4, ret |-> total_len]

\* add_property (ptr, ptr_capacity, name, value, value_len): ptr is the index
\* of the first cell written.  A failed zmq_assert aborts the process, so what
\* was written before the value_len assertion fails is never seen: the three
\* assertions are tested together and the buffer is left alone on abort.
add_property(buf, ptr, ptr_capacity, name, value) ==
    LET nl == name_len(name)
        total_len == property_len(nl, Len(value))
    IN  IF ~name_len_ok(name) \/ total_len > ptr_capacity \/ Len(value) > 2147483647
        THEN [aborted |-> TRUE, buf |-> buf, ret |-> 0]
        ELSE LET b1 == memcpy(buf, ptr, <<nl>>)
                 b2 == memcpy(b1, ptr + 1, name)
                 b3 == memcpy(b2, ptr + 1 + nl, put_uint32(Len(value)))
                 b4 == memcpy(b3, ptr + 1 + nl + 4, value)
             IN  [aborted |-> FALSE, buf |-> b4, ret |-> total_len]

HasIdentity(opts) ==
    opts.type = ZMQ_REQ \/ opts.type = ZMQ_DEALER \/ opts.type = ZMQ_ROUTER

\* basic_properties_len without the Identity term.
basic_properties_len_no_identity(opts) ==
    mechanism_property_len(ZMTP_PROPERTY_SOCKET_TYPE, Len(socket_type_string(opts.type)))

\* basic_properties_len ()
basic_properties_len(opts) ==
    mechanism_property_len(ZMTP_PROPERTY_SOCKET_TYPE, Len(socket_type_string(opts.type)))
    + (IF HasIdentity(opts)
       THEN mechanism_property_len(ZMTP_PROPERTY_IDENTITY, Len(opts.routing_id))
       ELSE 0)

\* add_basic_properties (buf, buf_capacity): buf is the index of the first
\* cell.  The second add_property is not reached when the first one aborts.
add_basic_properties(mem, buf, buf_capacity, opts) ==
    LET socket_type == socket_type_string(opts.type)
        r1 == add_property(mem, buf, buf_capacity, ZMTP_PROPERTY_SOCKET_TYPE, socket_type)
        ptr1 == buf + r1.ret
    IN  IF r1.aborted THEN r1
        ELSE IF HasIdentity(opts)
        THEN LET r2 == add_property(r1.buf, ptr1, buf_capacity - (ptr1 - buf),
                                    ZMTP_PROPERTY_IDENTITY, opts.routing_id)
             IN  [aborted |-> r2.aborted, buf |-> r2.buf, ret |-> (ptr1 + r2.ret) - buf]
        ELSE [aborted |-> FALSE, buf |-> r1.buf, ret |-> ptr1 - buf]

\* make_command_with_basic_properties (msg_, prefix, prefix_len): the message
\* is msg_->init_size (command_size) cells of uninitialised memory.
make_command_with_basic_properties(prefix, opts) ==
    LET command_size == Len(prefix) + basic_properties_len(opts)
        data == Fill(Uninit, command_size)
        d1 == memcpy(data, 1, prefix)
        ptr == 1 + Len(prefix)
    IN  add_basic_properties(d1, ptr, command_size - (ptr - 1), opts)

\* ------------------------------------------------------------------ parser

\* The state parse_metadata works on: the members it may change (routing_id,
\* zap_properties, zmtp_properties), errno, its return value rc, and two
\* records of what it did: hooked, the (name, value) pairs handed to the
\* virtual property () hook in order, and dispatched, the pairs for which the
\* dictionary insert at the end of the loop body was executed, in order.

\* set_peer_routing_id (id_ptr, id_size)
set_peer_routing_id(m, id) == [m EXCEPT !.routing_id = id]

\* virtual property (name, value, length): the default implementation returns
\* 0; a concrete mechanism hk overrides it and rejects the names in
\* hk.rejects with -1 after setting errno to hk.errno.
property(hk, name, value) ==
    IF name \in hk.rejects THEN [rc |-> -1, errno |-> hk.errno]
    ELSE [rc |-> 0, errno |-> ""]

\* The insert made into both dictionaries, whatever the flag.
parse_record_both(m, name, value, zap_flag) ==
    [m EXCEPT !.zap_properties = dict_insert(@, name, value),
              !.zmtp_properties = dict_insert(@, name, value),
              !.dispatched = Append(@, <<name, value>>)]

\* The insert that ends the loop body: zap_flag selects the dictionary.
parse_record(m, name, value, zap_flag) ==
    IF zap_flag
    THEN [m EXCEPT !.zap_properties = dict_insert(@, name, value),
                   !.dispatched = Append(@, <<name, value>>)]
    ELSE [m EXCEPT !.zmtp_properties = dict_insert(@, name, value),
                   !.dispatched = Append(@, <<name, value>>)]

\* The final check with the loop's bound (bytes_left > 1) instead of > 0.
parse_end_allows_one(m, bytes_left) ==
    IF bytes_left > 1
    THEN [m EXCEPT !.errno = EPROTO, !.rc = -1]
    ELSE [m EXCEPT !.rc = 0]

\* After the loop: if (bytes_left > 0) { errno = EPROTO; return -1; } return 0;
parse_end(m, bytes_left) ==
    IF bytes_left > 0
    THEN [m EXCEPT !.errno = EPROTO, !.rc = -1]
    ELSE [m EXCEPT !.rc = 0]

\* The dispatch without the options.recv_routing_id test.
parse_dispatch_ignores_flag(opts, hk, m, name, value) ==
    IF name = ZMTP_PROPERTY_IDENTITY
    THEN [done |-> FALSE, m |-> set_peer_routing_id(m, value)]
    ELSE IF name = ZMTP_PROPERTY_SOCKET_TYPE
    THEN IF ~check_socket_type(opts, value)
         THEN [done |-> TRUE, m |-> [m EXCEPT !.errno = EINVAL, !.rc = -1]]
         ELSE [done |-> FALSE, m |-> m]
    ELSE LET r == property(hk, name, value)
             m1 == [m EXCEPT !.hooked = Append(@, <<name, value>>)]
         IN  IF r.rc = -1
             THEN [done |-> TRUE, m |-> [m1 EXCEPT !.errno = r.errno, !.rc = -1]]
             ELSE [done |-> FALSE, m |-> m1]

\* The dispatch that sets EINVAL for an incompatible Socket-Type but goes on.
parse_dispatch_no_abort(opts, hk, m, name, value) ==
    IF name = ZMTP_PROPERTY_IDENTITY /\ opts.recv_routing_id
    THEN [done |-> FALSE, m |-> set_peer_routing_id(m, value)]
    ELSE IF name = ZMTP_PROPERTY_SOCKET_TYPE
    THEN IF ~check_socket_type(opts, value)
         THEN [done |-> FALSE, m |-> [m EXCEPT !.errno = EINVAL, !.rc = -1]]
         ELSE [done |-> FALSE, m |-> m]
    ELSE LET r == property(hk, name, value)
             m1 == [m EXCEPT !.hooked = Append(@, <<name, value>>)]
         IN  IF r.rc = -1
             THEN [done |-> TRUE, m |-> [m1 EXCEPT !.errno = r.errno, !.rc = -1]]
             ELSE [done |-> FALSE, m |-> m1]

\* The if / else if / else of the loop body.  done is TRUE when the branch
\* returned -1 from parse_metadata.
parse_dispatch(opts, hk, m, name, value) ==
    IF name = ZMTP_PROPERTY_IDENTITY /\ opts.recv_routing_id
    THEN [done |-> FALSE, m |-> set_peer_routing_id(m, value)]
    ELSE IF name = ZMTP_PROPERTY_SOCKET_TYPE
    THEN IF ~check_socket_type(opts, value)
         THEN [done |-> TRUE, m |-> [m EXCEPT !.errno = EINVAL, !.rc = -1]]
         ELSE [done |-> FALSE, m |-> m]
    ELSE LET r == property(hk, name, value)
             m1 == [m EXCEPT !.hooked = Append(@, <<name, value>>)]
         IN  IF r.rc = -1
             THEN [done |-> TRUE, m |-> [m1 EXCEPT !.errno = r.errno, !.rc = -1]]
             ELSE [done |-> FALSE, m |-> m1]

\* while (bytes_left > 1) { ... }: ptr is the index of the next byte of buf.
RECURSIVE parse_loop(_, _, _, _, _, _, _)
parse_loop(opts, hk, m, buf, zap_flag, ptr, bytes_left) ==
    IF ~(bytes_left > 1) THEN parse_end(m, bytes_left)
    ELSE
    LET name_length == buf[ptr]
        ptr1 == ptr + 1
        left1 == bytes_left - 1
    IN  IF left1 < name_length THEN parse_end(m, left1)
        ELSE
        LET name == SubSeq(buf, ptr1, ptr1 + name_length - 1)
            ptr2 == ptr1 + name_length
            left2 == left1 - name_length
        IN  IF left2 < 4 THEN parse_end(m, left2)
            ELSE
            LET value_length == get_uint32(buf, ptr2)
                ptr3 == ptr2 + 4
                left3 == left2 - 4
            IN  IF left3 < value_length THEN parse_end(m, left3)
                ELSE
                LET value == SubSeq(buf, ptr3, ptr3 + value_length - 1)
                    ptr4 == ptr3 + value_length
                    left4 == left3 - value_length
                    then(d) ==
                        IF d.done THEN d.m
                        ELSE parse_loop(opts, hk, parse_record(d.m, name, value, zap_flag),
                                        buf, zap_flag, ptr4, left4)
                IN  then(parse_dispatch(opts, hk, m, name, value))

\* parse_metadata (ptr_, length_, zap_flag)
parse_metadata(opts, hk, m, buf, zap_flag) ==
    parse_loop(opts, hk, [m EXCEPT !.hooked = <<>>, !.dispatched = <<>>],
               buf, zap_flag, 1, Len(buf))

\* --------------------------------------------------------- identity store

\* set_user_id (data_, size_) on st = [user_id, zap_properties]
set_user_id(st, data_) ==
    [st EXCEPT !.user_id = data_,
               !.zap_properties = dict_insert(@, ZMQ_MSG_PROPERTY_USER_ID, data_)]

\* get_user_id ()
get_user_id(st) == st.user_id

\* peer_routing_id (msg_): init_size (routing_id.size ()), memcpy, set_flags.
peer_routing_id(id) ==
    [data |-> memcpy(Fill(Uninit, Len(id)), 1, id), flags |-> {"routing_id"}]

\* ------------------------------------------------------------------- state

VARIABLES
    options,          \* const options_t &: [type, routing_id, recv_routing_id]
    hook,             \* the concrete mechanism's property () override
    routing_id,       \* blob_t routing_id (the peer's)
    user_id,          \* blob_t user_id
    zap_properties,   \* metadata_t::dict_t zap_properties
    zmtp_properties,  \* metadata_t::dict_t zmtp_properties
    errno,            \* the thread's errno
    aborted,          \* a zmq_assert failed: the process is gone
    msg,              \* the msg_t / buffer the last builder call wrote
    last,             \* the last call: its name, inputs, result and the state before it
    ncalls            \* calls made so far

vars == << options, hook, routing_id, user_id, zap_properties, zmtp_properties,
           errno, aborted, msg, last, ncalls >>

\* The default property (), and concrete mechanisms that reject the
\* properties named "X" (and, for the third, "Identity" too) with EACCES.
NAME_A == <<97>>
NAME_X == <<88>>
DefaultHook == [rejects |-> {}, errno |-> ""]
StrictHook == [rejects |-> {NAME_X}, errno |-> "EACCES"]
IdentityHook == [rejects |-> {NAME_X, ZMTP_PROPERTY_IDENTITY}, errno |-> "EACCES"]

NoMsg == [data |-> <<>>, flags |-> {}]
NoCall == [op |-> "none"]

\* The state a constructed mechanism_t is in: empty blobs and dictionaries.
InitWith(types, rids, hooks) ==
    /\ options \in [type : types, routing_id : rids, recv_routing_id : BOOLEAN]
    /\ hook \in hooks
    /\ routing_id = <<>>
    /\ user_id = <<>>
    /\ zap_properties = EmptyDict
    /\ zmtp_properties = EmptyDict
    /\ errno = "0"
    /\ aborted = FALSE
    /\ msg = NoMsg
    /\ last = NoCall
    /\ ncalls = 0

\* The members a call can read or change, as one record.
Members ==
    [routing_id |-> routing_id, user_id |-> user_id,
     zap_properties |-> zap_properties, zmtp_properties |-> zmtp_properties,
     errno |-> errno]

\* --------------------------------------------------------- received bytes

\* The wire format of one property as the peer sends it: 1-byte name length,
\* name, 4-byte big-endian value length, value.
WireProperty(p) == <<Len(p[1])>> \o p[1] \o put_uint32(Len(p[2])) \o p[2]

RECURSIVE WireList(_)
WireList(ps) == IF ps = <<>> THEN <<>> ELSE WireProperty(Head(ps)) \o WireList(Tail(ps))

\* Sequences of at most n elements of S.
SeqsUpTo(S, n) == UNION {[1..k -> S] : k \in 0..n}

\* The properties a peer's metadata is built from in the parser specification.
ParsePool ==
    { <<ZMTP_PROPERTY_IDENTITY, <<105>>>>, <<ZMTP_PROPERTY_IDENTITY, <<106>>>>,
      <<ZMTP_PROPERTY_SOCKET_TYPE, STR_REP>>, <<ZMTP_PROPERTY_SOCKET_TYPE, STR_SUB>>,
      <<NAME_A, <<120>>>>, <<NAME_A, <<121>>>>, <<NAME_A, Fill(120, 256)>>,
      <<NAME_X, <<>>>>, << <<>>, <<>> >> }

\* Where the last property of ps starts in WireList(ps) (bytes before it).
LastStart(ps) == Len(WireList(SubSeq(ps, 1, Len(ps) - 1)))

\* The number of leading bytes of WireList(ps) a received buffer may keep: all
\* of them, or a cut inside the last property (in its header, in the first
\* MaxCutTail bytes of its value, or just before its last byte).
Cuts(ps) ==
    IF ps = <<>> THEN {0}
    ELSE LET from(s, l, h) == {k \in (s + 1)..l : k - s <= h + MaxCutTail \/ k >= l - 1}
         IN  from(LastStart(ps), Len(WireList(ps)), 1 + Len(ps[Len(ps)][1]) + 4)

\* Trailing bytes after a complete list: none, or one stray byte.
Strays == {<<>>, <<0>>, <<1>>, <<255>>}

\* A received buffer, with how it was built.
Received(ps, cut, stray) ==
    [props |-> ps, whole |-> Len(WireList(ps)), cut |-> cut, stray |-> stray,
     buf |-> SubSeq(WireList(ps), 1, cut) \o stray]

\* ----------------------------------------------------------------- actions

\* One call of parse_metadata (buf, Len (buf), zap_flag); rx says how the
\* buffer was built.
DoParse(rx, zap_flag) ==
    LET m == [routing_id |-> routing_id, zap_properties |-> zap_properties,
              zmtp_properties |-> zmtp_properties, errno |-> errno, rc |-> 0,
              hooked |-> <<>>, dispatched |-> <<>>]
    IN  \E r \in {parse_metadata(options, hook, m, rx.buf, zap_flag)} :
        /\ routing_id' = r.routing_id
        /\ zap_properties' = r.zap_properties
        /\ zmtp_properties' = r.zmtp_properties
        /\ errno' = r.errno
        /\ last' = [op |-> "parse_metadata", rx |-> rx, zap_flag |-> zap_flag,
                    rc |-> r.rc, hooked |-> r.hooked, dispatched |-> r.dispatched,
                    pre |-> Members]
        /\ ncalls' = ncalls + 1
        /\ UNCHANGED << options, hook, user_id, aborted, msg >>

\* The session hands one received command's metadata to a new mechanism.
ParseReceived ==
    /\ ~aborted
    /\ ncalls = 0
    /\ \E ps \in SeqsUpTo(ParsePool, MaxProps) :
         \E cut \in Cuts(ps) :
           \E stray \in (IF cut = Len(WireList(ps)) THEN Strays ELSE {<<>>}) :
             \E zap_flag \in BOOLEAN :
               DoParse(Received(ps, cut, stray), zap_flag)

\* The properties the calls of the lifecycle specification carry, one per
\* buffer.
LifePool ==
    { <<ZMTP_PROPERTY_IDENTITY, <<105>>>>, <<ZMTP_PROPERTY_IDENTITY, <<106>>>>,
      <<ZMQ_MSG_PROPERTY_USER_ID, <<117>>>>,
      <<ZMTP_PROPERTY_SOCKET_TYPE, STR_REP>>,
      <<NAME_A, <<120>>>>, <<NAME_A, <<121>>>>, <<NAME_X, <<>>>> }

\* Blobs a caller passes to set_user_id / set_peer_routing_id.
Blobs == {<<>>, <<117>>, <<118>>}

ParseCall ==
    /\ ~aborted
    /\ ncalls < MaxCalls
    /\ \E p \in LifePool :
         \E zap_flag \in BOOLEAN :
           DoParse(Received(<<p>>, Len(WireProperty(p)), <<>>), zap_flag)

SetUserId ==
    /\ ~aborted
    /\ ncalls < MaxCalls
    /\ \E data_ \in Blobs :
         LET r == set_user_id([user_id |-> user_id, zap_properties |-> zap_properties], data_)
         IN  /\ user_id' = r.user_id
             /\ zap_properties' = r.zap_properties
             /\ last' = [op |-> "set_user_id", data_ |-> data_, pre |-> Members]
    /\ ncalls' = ncalls + 1
    /\ UNCHANGED << options, hook, routing_id, zmtp_properties, errno, aborted, msg >>

SetPeerRoutingId ==
    /\ ~aborted
    /\ ncalls < MaxCalls
    /\ \E id \in Blobs :
         /\ routing_id' = set_peer_routing_id([routing_id |-> routing_id], id).routing_id
         /\ last' = [op |-> "set_peer_routing_id", id |-> id, pre |-> Members]
    /\ ncalls' = ncalls + 1
    /\ UNCHANGED << options, hook, user_id, zap_properties, zmtp_properties, errno,
                    aborted, msg >>

PeerRoutingId ==
    /\ ~aborted
    /\ ncalls < MaxCalls
    /\ msg' = peer_routing_id(routing_id)
    /\ last' = [op |-> "peer_routing_id", pre |-> Members]
    /\ ncalls' = ncalls + 1
    /\ UNCHANGED << options, hook, routing_id, user_id, zap_properties, zmtp_properties,
                    errno, aborted >>


\* ----------------------------------------------------- codec operations

\* Peer role names handed to check_socket_type: the nineteen names, and
\* strings that are none of them ("rep", "REPX", "RE", "").
PeerNames ==
    {socket_type_string(t) : t \in 0..18}
    \cup {<<114, 101, 112>>, <<82, 69, 80, 88>>, <<82, 69>>, <<>>}

CheckSocketType ==
    /\ ~aborted
    /\ ncalls = 0
    /\ \E type_ \in PeerNames :
         last' = [op |-> "check_socket_type", type_ |-> type_,
                  ret |-> check_socket_type(options, type_)]
    /\ ncalls' = ncalls + 1
    /\ UNCHANGED << options, hook, routing_id, user_id, zap_properties, zmtp_properties,
                    errno, aborted, msg >>

\* Command prefixes: none, and "\5READY".
Prefixes == {<<>>, <<5, 82, 69, 65, 68, 89>>}

MakeCommand ==
    /\ ~aborted
    /\ ncalls = 0
    /\ \E prefix \in Prefixes :
         \E r \in {make_command_with_basic_properties(prefix, options)} :
             /\ msg' = [data |-> r.buf, flags |-> {}]
             /\ aborted' = r.aborted
             /\ last' = [op |-> "make_command_with_basic_properties",
                         prefix |-> prefix, ret |-> r.ret]
    /\ ncalls' = ncalls + 1
    /\ UNCHANGED << options, hook, routing_id, user_id, zap_properties, zmtp_properties,
                    errno >>

\* A caller's buffer of cap cells: one short of what is needed (when that is
\* not negative), exactly enough, or one more.
Capacities(need) == {c \in {need - 1, need, need + 1} : c >= 0}

AddBasicProperties ==
    /\ ~aborted
    /\ ncalls = 0
    /\ \E cap \in Capacities(basic_properties_len(options)) :
         \E r \in {add_basic_properties(Fill(Uninit, cap), 1, cap, options)} :
             /\ msg' = [data |-> r.buf, flags |-> {}]
             /\ aborted' = r.aborted
             /\ last' = [op |-> "add_basic_properties", cap |-> cap, ret |-> r.ret,
                         len |-> basic_properties_len(options)]
    /\ ncalls' = ncalls + 1
    /\ UNCHANGED << options, hook, routing_id, user_id, zap_properties, zmtp_properties,
                    errno >>

\* The properties the encoder is given: the longest name (255 bytes), the
\* empty name, empty and 256-byte values, and the names with special handling.
NAME_255 == Fill(110, 255)
CodecPool ==
    { <<ZMTP_PROPERTY_IDENTITY, <<97, 98, 99>>>>,
      <<ZMTP_PROPERTY_SOCKET_TYPE, STR_ROUTER>>, <<ZMTP_PROPERTY_SOCKET_TYPE, STR_SUB>>,
      <<NAME_A, <<120>>>>, <<NAME_A, <<>>>>, <<NAME_A, Fill(120, 256)>>,
      << <<>>, <<>> >>, << <<>>, <<121>> >>, <<NAME_255, <<122>>>> }

\* A name one byte longer than add_property accepts.
NAME_256 == Fill(110, 256)

AddProperty ==
    /\ ~aborted
    /\ ncalls = 0
    /\ \E p \in CodecPool \cup {<<NAME_256, <<>>>>} :
         \E cap \in Capacities(1 + Len(p[1]) + 4 + Len(p[2])) :
           \E r \in {add_property(Fill(Uninit, cap), 1, cap, p[1], p[2])} :
               /\ msg' = [data |-> r.buf, flags |-> {}]
               /\ aborted' = r.aborted
               /\ last' = [op |-> "add_property", name |-> p[1], value |-> p[2],
                           cap |-> cap, ret |-> r.ret,
                           len |-> mechanism_property_len(p[1], Len(p[2]))]
    /\ ncalls' = ncalls + 1
    /\ UNCHANGED << options, hook, routing_id, user_id, zap_properties, zmtp_properties,
                    errno >>

\* add_property for each property of ps in turn into one buffer whose size is
\* the sum of their property_len, as the concrete mechanisms build a command.
\* Returns the buffer, the return values, and whether an assertion failed.
RECURSIVE encode_all(_, _, _, _)
encode_all(ps, mem, ptr, rets) ==
    IF ps = <<>> THEN [aborted |-> FALSE, buf |-> mem, rets |-> rets]
    ELSE LET p == Head(ps)
             then(r) ==
                 IF r.aborted THEN [aborted |-> TRUE, buf |-> r.buf, rets |-> rets]
                 ELSE encode_all(Tail(ps), r.buf, ptr + r.ret, Append(rets, r.ret))
         IN  then(add_property(mem, ptr, Len(mem) - (ptr - 1), p[1], p[2]))

RECURSIVE SumLen(_)
SumLen(ps) ==
    IF ps = <<>> THEN 0
    ELSE mechanism_property_len(Head(ps)[1], Len(Head(ps)[2])) + SumLen(Tail(ps))

DistinctNames(ps) == \A i, j \in 1..Len(ps) : i # j => ps[i][1] # ps[j][1]

\* Encode a property list, then hand exactly the encoded bytes to
\* parse_metadata.
EncodeThenParse ==
    /\ ~aborted
    /\ ncalls = 0
    /\ \E ps \in {q \in SeqsUpTo(CodecPool, MaxEncoded) : DistinctNames(q)} :
         \E zap_flag \in BOOLEAN :
           \E e \in {encode_all(ps, Fill(Uninit, SumLen(ps)), 1, <<>>)} :
           \E r \in {parse_metadata(options, hook,
                        [routing_id |-> routing_id, zap_properties |-> zap_properties,
                         zmtp_properties |-> zmtp_properties, errno |-> errno, rc |-> 0,
                         hooked |-> <<>>, dispatched |-> <<>>], e.buf, zap_flag)} :
               /\ ~e.aborted
               /\ msg' = [data |-> e.buf, flags |-> {}]
               /\ routing_id' = r.routing_id
               /\ zap_properties' = r.zap_properties
               /\ zmtp_properties' = r.zmtp_properties
               /\ errno' = r.errno
               /\ last' = [op |-> "encode_then_parse", props |-> ps, rets |-> e.rets,
                           zap_flag |-> zap_flag, rc |-> r.rc, pre |-> Members]
    /\ ncalls' = ncalls + 1
    /\ UNCHANGED << options, hook, user_id, aborted >>

\* ---------------------------------------------------------- specifications

LifeTypes == {ZMQ_REQ, ZMQ_PUB}
ParseTypes == {ZMQ_REQ, ZMQ_PUB, ZMQ_STREAM}
RoutingIds == {<<>>, <<97, 98, 99>>}

\* The lifecycle of one mechanism instance: parse_metadata, set_user_id,
\* set_peer_routing_id and peer_routing_id in any order.
Init == InitWith(LifeTypes, {<<>>}, {DefaultHook, StrictHook, IdentityHook})
Next == ParseCall \/ SetUserId \/ SetPeerRoutingId \/ PeerRoutingId
Spec == Init /\ [][Next]_vars

\* One parse_metadata call of a new instance over the generated buffers.
InitParse == InitWith(ParseTypes, {<<>>}, {DefaultHook, IdentityHook})
NextParse == ParseReceived
SpecParse == InitParse /\ [][NextParse]_vars

\* The encoder, the builder and the compatibility check for every socket
\* type, each applied once to a new instance.
AllTypes == 0..18
InitCodec == InitWith(AllTypes, RoutingIds, {DefaultHook})
NextCodec ==
    CheckSocketType \/ MakeCommand \/ AddBasicProperties \/ AddProperty \/ EncodeThenParse
SpecCodec == InitCodec /\ [][NextCodec]_vars

\* ------------------------------------------------- what the claims refer to

\* The role names by code (0..18), as the protocol's role table lists them.
RoleNames ==
    << STR_PAIR, STR_PUB, STR_SUB, STR_REQ, STR_REP, STR_DEALER, STR_ROUTER, STR_PULL,
       STR_PUSH, STR_XPUB, STR_XSUB, STR_STREAM, STR_SERVER, STR_CLIENT, STR_RADIO,
       STR_DISH, STR_GATHER, STR_SCATTER, STR_DGRAM >>

\* The compatibility table, row by row: local role name, accepted peer names.
CompatRows ==
    { <<STR_PAIR, {STR_PAIR}>>,
      <<STR_REQ, {STR_REP, STR_ROUTER}>>,
      <<STR_REP, {STR_REQ, STR_DEALER}>>,
      <<STR_DEALER, {STR_REP, STR_DEALER, STR_ROUTER}>>,
      <<STR_ROUTER, {STR_REQ, STR_DEALER, STR_ROUTER}>>,
      <<STR_PUSH, {STR_PULL}>>,
      <<STR_PULL, {STR_PUSH}>>,
      <<STR_PUB, {STR_SUB, STR_XSUB}>>,
      <<STR_SUB, {STR_PUB, STR_XPUB}>>,
      <<STR_XPUB, {STR_SUB, STR_XSUB}>>,
      <<STR_XSUB, {STR_PUB, STR_XPUB}>>,
      <<STR_SERVER, {STR_CLIENT}>>,
      <<STR_CLIENT, {STR_SERVER}>>,
      <<STR_RADIO, {STR_DISH}>>,
      <<STR_DISH, {STR_RADIO}>>,
      <<STR_GATHER, {STR_SCATTER}>>,
      <<STR_SCATTER, {STR_GATHER}>>,
      <<STR_DGRAM, {STR_DGRAM}>> }

Compatible(local, peer_name) ==
    \E row \in CompatRows : row[1] = RoleNames[local + 1] /\ peer_name \in row[2]

IsParse == last.op = "parse_metadata"

\* The dictionary the flag of the last parse_metadata call selects, and the
\* other one, now and before the call.
Selected == IF last.zap_flag THEN zap_properties ELSE zmtp_properties
SelectedBefore == IF last.zap_flag THEN last.pre.zap_properties ELSE last.pre.zmtp_properties
Other == IF last.zap_flag THEN zmtp_properties ELSE zap_properties
OtherBefore == IF last.zap_flag THEN last.pre.zmtp_properties ELSE last.pre.zap_properties

\* How the last buffer was built.
Truncated == last.rx.cut < last.rx.whole
Complete == last.rx.cut = last.rx.whole
OneStray == Complete /\ Len(last.rx.stray) = 1

\* The properties that are whole in the buffer.
CompleteProps ==
    IF Truncated THEN SubSeq(last.rx.props, 1, Len(last.rx.props) - 1) ELSE last.rx.props

\* Property p makes the parse return at once: an incompatible Socket-Type, or
\* a property the hook rejects.
Aborts(p) ==
    IF p[1] = ZMTP_PROPERTY_IDENTITY /\ options.recv_routing_id THEN FALSE
    ELSE IF p[1] = ZMTP_PROPERTY_SOCKET_TYPE THEN ~Compatible(options.type, p[2])
    ELSE p[1] \in hook.rejects

\* The index of the first whole property that aborts the parse, 0 if none.
FirstAbort ==
    IF \E i \in 1..Len(CompleteProps) : Aborts(CompleteProps[i])
    THEN CHOOSE i \in 1..Len(CompleteProps) :
            /\ Aborts(CompleteProps[i])
            /\ \A j \in 1..(i - 1) : ~Aborts(CompleteProps[j])
    ELSE 0

\* The whole properties before the first aborting one, and up to it.
Before ==
    IF FirstAbort = 0 THEN CompleteProps ELSE SubSeq(CompleteProps, 1, FirstAbort - 1)
Decoded ==
    IF FirstAbort = 0 THEN CompleteProps ELSE SubSeq(CompleteProps, 1, FirstAbort)

\* The value of the last property of ps named n.
LastValue(ps, n) ==
    ps[CHOOSE i \in 1..Len(ps) :
          ps[i][1] = n /\ \A j \in (i + 1)..Len(ps) : ps[j][1] # n][2]

Names(ps) == {ps[i][1] : i \in 1..Len(ps)}

\* Every property of ps has its name as a key of d, bound to its own value, to
\* the value of another property of ps with that name, or to the value d0
\* already held; d has no other keys than those of d0 and the names of ps.
RecordedIn(d, d0, ps) ==
    /\ DOMAIN d = DOMAIN d0 \cup Names(ps)
    /\ \A i \in 1..Len(ps) :
         \/ d[ps[i][1]] = ps[i][2]
         \/ \E j \in 1..Len(ps) : j # i /\ ps[j][1] = ps[i][1] /\ d[ps[i][1]] = ps[j][2]
         \/ ps[i][1] \in DOMAIN d0 /\ d[ps[i][1]] = d0[ps[i][1]]

\* ------------------------------------------------------------------ claims

\* C1: parse_metadata rejects every truncated buffer with EPROTO: a buffer
\* that ends partway through a property, with no aborting property before
\* it, makes parse_metadata return -1 with errno EPROTO.
C1_TruncatedRejected ==
    (IsParse /\ Truncated /\ FirstAbort = 0) => (last.rc = -1 /\ errno = EPROTO)

\* What the code does with a truncated buffer: it returns 0 exactly when the
\* buffer ends right after a non-empty name or right after the value-length
\* field, and fails with EPROTO at every other cut.
C1_AcceptedCuts ==
    (IsParse /\ Truncated /\ FirstAbort = 0) =>
        LET ps == last.rx.props
            n == Len(ps[Len(ps)][1])
            k == last.rx.cut - LastStart(ps)
        IN  /\ (last.rc = 0) <=> ((k = 1 + n /\ n >= 1) \/ k = 1 + n + 4)
            /\ last.rc # 0 => (last.rc = -1 /\ errno = EPROTO)

\* C2: whole properties (none aborting) followed by one stray byte fail with
\* EPROTO; a buffer of length 1 fails with EPROTO; a buffer of length 0
\* succeeds.
C2_StrayByteRejected ==
    IsParse =>
        /\ (OneStray /\ FirstAbort = 0) => (last.rc = -1 /\ errno = EPROTO)
        /\ Len(last.rx.buf) = 1 => (last.rc = -1 /\ errno = EPROTO)
        /\ Len(last.rx.buf) = 0 => last.rc = 0

C2_Witness ==
    /\ IsParse
    /\ OneStray
    /\ Len(last.rx.props) = 2
    /\ FirstAbort = 0
    /\ last.rc = -1
    /\ errno = EPROTO

\* C3: after set_user_id (x), get_user_id () is x and the
\* authentication-facing dictionary maps "User-Id" to x.
C3_UserIdInDictionary ==
    last.op = "set_user_id" =>
        /\ get_user_id(Members) = last.data_
        /\ ZMQ_MSG_PROPERTY_USER_ID \in DOMAIN zap_properties
        /\ zap_properties[ZMQ_MSG_PROPERTY_USER_ID] = last.data_

\* What the code does: the blob is x, and the dictionary keeps the "User-Id"
\* it already had, or maps it to x when it had none.
C3_FirstUserIdKept ==
    last.op = "set_user_id" =>
        /\ get_user_id(Members) = last.data_
        /\ ZMQ_MSG_PROPERTY_USER_ID \in DOMAIN zap_properties
        /\ zap_properties[ZMQ_MSG_PROPERTY_USER_ID] =
              IF ZMQ_MSG_PROPERTY_USER_ID \in DOMAIN last.pre.zap_properties
              THEN last.pre.zap_properties[ZMQ_MSG_PROPERTY_USER_ID]
              ELSE last.data_

\* C4: the dictionaries are last-write-wins: after a successful parse the
\* selected dictionary maps each name to the value of the last property with
\* that name, and with recv_routing_id its "Identity" entry is the stored
\* peer routing id.
C4_LastWriteWins ==
    (IsParse /\ last.rc = 0 /\ Complete) =>
        /\ \A n \in Names(last.rx.props) :
              n \in DOMAIN Selected /\ Selected[n] = LastValue(last.rx.props, n)
        /\ (options.recv_routing_id /\ ZMTP_PROPERTY_IDENTITY \in Names(last.rx.props)) =>
              Selected[ZMTP_PROPERTY_IDENTITY] = routing_id

\* What the code does: a name already in the dictionary keeps its value, a
\* new name gets the value of the first property with that name; the routing
\* id is the value of the last Identity property.
C4_FirstWriteWins ==
    (IsParse /\ last.rc = 0 /\ Complete) =>
        /\ \A n \in Names(last.rx.props) :
              /\ n \in DOMAIN Selected
              /\ Selected[n] =
                    IF n \in DOMAIN SelectedBefore THEN SelectedBefore[n]
                    ELSE last.rx.props[CHOOSE i \in 1..Len(last.rx.props) :
                            /\ last.rx.props[i][1] = n
                            /\ \A j \in 1..(i - 1) : last.rx.props[j][1] # n][2]
        /\ (options.recv_routing_id /\ ZMTP_PROPERTY_IDENTITY \in Names(last.rx.props)) =>
              routing_id = LastValue(last.rx.props, ZMTP_PROPERTY_IDENTITY)

\* C5: one parse_metadata call writes one dictionary: the properties
\* dispatched without error are in the dictionary the flag selects, the other
\* dictionary is unchanged, for Socket-Type and Identity as for the rest,
\* whether the call succeeds or fails.
C5_OneDictionary ==
    IsParse =>
        /\ Other = OtherBefore
        /\ RecordedIn(Selected, SelectedBefore, Before)
        /\ \A n \in Names(Before) :
              (n \notin DOMAIN SelectedBefore
               /\ Cardinality({i \in 1..Len(Before) : Before[i][1] = n}) = 1)
              => Selected[n] = LastValue(Before, n)

C5_Witness ==
    /\ IsParse
    /\ last.zap_flag
    /\ last.rc = -1
    /\ Names(Before) = {ZMTP_PROPERTY_SOCKET_TYPE, ZMTP_PROPERTY_IDENTITY}
    /\ DOMAIN zap_properties = {ZMTP_PROPERTY_SOCKET_TYPE, ZMTP_PROPERTY_IDENTITY}
    /\ zmtp_properties = EmptyDict

\* C6: without recv_routing_id parse_metadata never changes the stored peer
\* routing id; a decoded Identity property goes to the property () hook and,
\* when the hook accepts it, into the selected dictionary.  With
\* recv_routing_id an Identity property replaces the stored id and the hook
\* is not called for it.
C6_IdentityHandling ==
    IsParse =>
        /\ ~options.recv_routing_id =>
              /\ routing_id = last.pre.routing_id
              /\ last.hooked = SelectSeq(Decoded, LAMBDA p : p[1] # ZMTP_PROPERTY_SOCKET_TYPE)
              /\ RecordedIn(Selected, SelectedBefore, Before)
        /\ options.recv_routing_id =>
              /\ last.hooked = SelectSeq(Decoded, LAMBDA p :
                                    /\ p[1] # ZMTP_PROPERTY_SOCKET_TYPE
                                    /\ p[1] # ZMTP_PROPERTY_IDENTITY)
              /\ routing_id = IF ZMTP_PROPERTY_IDENTITY \in Names(Decoded)
                              THEN LastValue(Decoded, ZMTP_PROPERTY_IDENTITY)
                              ELSE last.pre.routing_id

C6_Witness ==
    /\ IsParse
    /\ ~options.recv_routing_id
    /\ last.pre.routing_id # <<>>
    /\ last.rc = 0
    /\ Names(Decoded) = {ZMTP_PROPERTY_IDENTITY}
    /\ last.hooked = Decoded
    /\ routing_id = last.pre.routing_id
    /\ ZMTP_PROPERTY_IDENTITY \in DOMAIN Selected
    /\ ZMTP_PROPERTY_IDENTITY \notin DOMAIN SelectedBefore

\* C7: check_socket_type is the compatibility table: true exactly for the
\* listed (local role, peer name) pairs, false for every other string, false
\* for every name when the local role is STREAM, and symmetric.
C7_CompatibilityTable ==
    /\ last.op = "check_socket_type" =>
          /\ last.ret = Compatible(options.type, last.type_)
          /\ options.type = ZMQ_STREAM => last.ret = FALSE
    /\ \A a, b \in 0..18 :
          check_socket_type([type |-> a], RoleNames[b + 1])
          = check_socket_type([type |-> b], RoleNames[a + 1])

C7_Witness ==
    /\ last.op = "check_socket_type"
    /\ options.type = ZMQ_DEALER
    /\ last.type_ = STR_ROUTER
    /\ last.ret = TRUE

\* The bytes the basic properties must be: Socket-Type with the role's name,
\* then Identity with the configured routing id for REQ, DEALER and ROUTER.
ExpectedBasic ==
    WireProperty(<<ZMTP_PROPERTY_SOCKET_TYPE, RoleNames[options.type + 1]>>)
    \o (IF options.type \in {ZMQ_REQ, ZMQ_DEALER, ZMQ_ROUTER}
        THEN WireProperty(<<ZMTP_PROPERTY_IDENTITY, options.routing_id>>)
        ELSE <<>>)

\* C8: add_basic_properties writes Socket-Type first and Identity after it
\* exactly for REQ, DEALER and ROUTER, and returns basic_properties_len ();
\* make_command_with_basic_properties allocates prefix_len +
\* basic_properties_len () bytes, fills all of them and trips no assertion.
C8_BasicProperties ==
    /\ last.op = "add_basic_properties" =>
          /\ aborted <=> last.cap < Len(ExpectedBasic)
          /\ ~aborted =>
                /\ last.ret = basic_properties_len(options)
                /\ last.ret = Len(ExpectedBasic)
                /\ SubSeq(msg.data, 1, last.ret) = ExpectedBasic
    /\ last.op = "make_command_with_basic_properties" =>
          /\ ~aborted
          /\ Len(msg.data) = Len(last.prefix) + basic_properties_len(options)
          /\ last.ret = basic_properties_len(options)
          /\ msg.data = last.prefix \o ExpectedBasic
          /\ \A i \in 1..Len(msg.data) : msg.data[i] # Uninit

C8_Witness ==
    /\ last.op = "make_command_with_basic_properties"
    /\ options.type = ZMQ_ROUTER
    /\ options.routing_id = <<97, 98, 99>>
    /\ last.prefix # <<>>
    /\ ~aborted
    /\ last.ret = (1 + 11 + 4 + 6) + (1 + 8 + 4 + 3)
    /\ Len(msg.data) = Len(last.prefix) + last.ret

\* C9: add_property writes 1 + |name| + 4 + |value| bytes for every name of
\* at most 255 bytes and every value, and parse_metadata on exactly the bytes
\* of one or several encoded properties with distinct names (default hook,
\* no incompatible Socket-Type) succeeds and records each (name, value) in
\* the selected dictionary.
C9_RoundTrip ==
    /\ last.op = "add_property" =>
          /\ aborted <=> (Len(last.name) > 255
                          \/ last.cap < 1 + Len(last.name) + 4 + Len(last.value))
          /\ ~aborted =>
                /\ last.ret = 1 + Len(last.name) + 4 + Len(last.value)
                /\ last.len = last.ret
    /\ last.op = "encode_then_parse" =>
          /\ Len(last.rets) = Len(last.props)
          /\ \A i \in 1..Len(last.props) :
                last.rets[i] = 1 + Len(last.props[i][1]) + 4 + Len(last.props[i][2])
          /\ \A i \in 1..Len(msg.data) : msg.data[i] # Uninit
          /\ (/\ hook = DefaultHook
              /\ \A i \in 1..Len(last.props) :
                    last.props[i][1] = ZMTP_PROPERTY_SOCKET_TYPE
                    => Compatible(options.type, last.props[i][2]))
             => /\ last.rc = 0
                /\ DOMAIN Selected = Names(last.props)
                /\ \A i \in 1..Len(last.props) :
                      Selected[last.props[i][1]] = last.props[i][2]
                /\ Other = EmptyDict

C9_Witness ==
    /\ last.op = "encode_then_parse"
    /\ Names(last.props) = {NAME_255, <<>>}
    /\ last.rc = 0
    /\ NAME_255 \in DOMAIN Selected
    /\ Selected[<<>>] = <<121>>

\* C10: errors short-circuit the parse: at the first incompatible
\* Socket-Type parse_metadata returns EINVAL, at the first property the hook
\* rejects it returns the hook's failure; that property and the ones after it
\* are not dispatched or recorded, no later Identity changes the routing id,
\* whatever follows in the buffer; the properties before it stay recorded.
\* If parse_metadata succeeds, every Socket-Type was compatible and every
\* hook call succeeded.
C10_ShortCircuit ==
    IsParse =>
        /\ FirstAbort # 0 =>
              /\ last.rc = -1
              /\ errno = IF CompleteProps[FirstAbort][1] = ZMTP_PROPERTY_SOCKET_TYPE
                         THEN EINVAL ELSE hook.errno
              /\ last.dispatched = Before
              /\ RecordedIn(Selected, SelectedBefore, Before)
              /\ Other = OtherBefore
              /\ routing_id =
                    IF options.recv_routing_id /\ ZMTP_PROPERTY_IDENTITY \in Names(Before)
                    THEN LastValue(Before, ZMTP_PROPERTY_IDENTITY)
                    ELSE last.pre.routing_id
              /\ last.hooked =
                    SelectSeq(Decoded, LAMBDA p :
                        /\ p[1] # ZMTP_PROPERTY_SOCKET_TYPE
                        /\ ~(p[1] = ZMTP_PROPERTY_IDENTITY /\ options.recv_routing_id))
        /\ last.rc = 0 =>
              /\ FirstAbort = 0
              /\ \A i \in 1..Len(CompleteProps) :
                    CompleteProps[i][1] = ZMTP_PROPERTY_SOCKET_TYPE
                    => Compatible(options.type, CompleteProps[i][2])
              /\ \A i \in 1..Len(last.hooked) : last.hooked[i][1] \notin hook.rejects

C10_Witness ==
    /\ IsParse
    /\ options.recv_routing_id
    /\ Len(last.rx.props) = 2
    /\ FirstAbort = 1
    /\ last.rx.props[1][1] = ZMTP_PROPERTY_SOCKET_TYPE
    /\ last.rx.props[2][1] = ZMTP_PROPERTY_IDENTITY
    /\ Complete
    /\ last.rc = -1
    /\ errno = EINVAL
    /\ routing_id = <<>>
    /\ Selected = EmptyDict

\* A hook rejection after a recorded property, followed by a stray byte.
C10_WitnessHook ==
    /\ IsParse
    /\ OneStray
    /\ FirstAbort = 2
    /\ last.rc = -1
    /\ errno = hook.errno
    /\ DOMAIN Selected = {last.rx.props[1][1]}

====
